---- MODULE Spec2Model ----
(***************************************************************************)
(* Model of the product review analyzer (app.py / streamlit_app.py):       *)
(* the per-product aggregation pipeline cached_inference and the           *)
(* functools.lru_cache that wraps it behind the /analyze/{asin} endpoint,  *)
(* which FastAPI serves from a thread pool.                                *)
(*                                                                         *)
(* Floats are modelled exactly: a score is an integer number of percent,   *)
(* a fraction v / total is the pair (num, den).  A text is a sequence of   *)
(* tokens: "w" a non-blank character, "sp" a whitespace character and      *)
(* "br" one occurrence of the markup matched by <br\s*/?>.                 *)
(***************************************************************************)
EXTENDS Integers, Sequences, FiniteSets, TLC

\* ------------------------------------------------------------ configuration

\* app.py:13 sets MAX_REVIEWS_TO_ANALYZE = 50; the model scales it down so
\* that stores with more rows than the limit stay enumerable.
MAX_REVIEWS_TO_ANALYZE == 2

\* @lru_cache(maxsize=50) of app.py:91, scaled down in the same way.
maxsize == 2

LABELS ==
  << "Quality & Effectiveness", "Scent & Texture", "Price & Value",
     "Packaging & Shipping", "Safety & Authenticity", "Service" >>

\* Python's None, the value cached_inference returns for an unknown ASIN.
None == [tag |-> "None"]

\* ------------------------------------------------------------------ bounds

\* Number of request-serving threads of the thread pool.
NThreads == 2

\* Cap on the number of cache misses (pipeline runs) started in a behaviour.
MaxRuns == 3

\* Rows of a review store: one more than the analysis limit, so that the
\* limit cuts.
MaxRows == MAX_REVIEWS_TO_ANALYZE + 1

ASINS == {"A", "B", "U", "V"}

\* The reviews the stores are built from (the products "U" and "V" have
\* none), each row with the product columns of its product.
Pool ==
  { [parent_asin |-> "A", product_title |-> "Title A", rating_number |-> 7,
     helpful_vote |-> 1, timestamp |-> 2, rating |-> 5,
     text |-> <<"w", "br", "sp", "w">>],
    [parent_asin |-> "A", product_title |-> "Title A", rating_number |-> 7,
     helpful_vote |-> 1, timestamp |-> 1, rating |-> 1,
     text |-> <<"sp", "w", "sp", "sp", "w", "sp">>],
    [parent_asin |-> "A", product_title |-> "Title A", rating_number |-> 7,
     helpful_vote |-> 0, timestamp |-> 2, rating |-> 3,
     text |-> <<"w">>],
    [parent_asin |-> "A", product_title |-> "Title A", rating_number |-> 7,
     helpful_vote |-> 0, timestamp |-> 2, rating |-> 4,
     text |-> <<"w", "w">>],
    [parent_asin |-> "A", product_title |-> "Title A", rating_number |-> 7,
     helpful_vote |-> 1, timestamp |-> 2, rating |-> 2,
     text |-> <<"br", "w">>],
    [parent_asin |-> "A", product_title |-> "Title A", rating_number |-> 7,
     helpful_vote |-> 0, timestamp |-> 1, rating |-> 5,
     text |-> <<"w", "sp", "br", "sp", "w">>],
    [parent_asin |-> "B", product_title |-> "Title B", rating_number |-> 3,
     helpful_vote |-> 1, timestamp |-> 2, rating |-> 4,
     text |-> <<"w", "sp", "w">>],
    [parent_asin |-> "B", product_title |-> "Title B", rating_number |-> 3,
     helpful_vote |-> 0, timestamp |-> 1, rating |-> 1,
     text |-> <<"w">>] }

SeqsUpTo(S, n) == UNION { [1..k -> S] : k \in 0..n }

Stores == SeqsUpTo(Pool, MaxRows)

\* -------------------------------------------------------------- classifier

Reverse(s) == [i \in 1..Len(s) |-> s[Len(s) + 1 - i]]

\* The zero-shot pipeline returns, for each text, every candidate label with
\* a score, the labels listed by descending score.  Scores are percentages.
LabelOrders == {LABELS, Reverse(LABELS)}

ScoreVectors == { <<90, 10, 10, 10, 10, 10>>, <<90, 90, 10, 10, 10, 10>> }

ClassifierResults ==
  { [labels |-> l, scores |-> s] : l \in LabelOrders, s \in ScoreVectors }

\* What classifier(raw_texts, candidate_labels=LABELS, multi_label=True) may
\* return for n texts: one result per text, in order.
ClassifierOutputs(n) == [1..n -> ClassifierResults]

\* ------------------------------------------------------------------ helpers

RECURSIVE SelectSeq2(_, _)
\* The subsequence of s of the elements whose parent_asin is asin:
\* df[df['parent_asin'] == asin].
SelectSeq2(s, asin) ==
  IF s = <<>> THEN <<>>
  ELSE IF Head(s).parent_asin = asin
       THEN <<Head(s)>> \o SelectSeq2(Tail(s), asin)
       ELSE SelectSeq2(Tail(s), asin)

RECURSIVE ReplaceBr(_)
\* re.sub(r'<br\s*/?>', ' ', text)
ReplaceBr(t) ==
  IF t = <<>> THEN <<>>
  ELSE << IF Head(t) = "br" THEN "sp" ELSE Head(t) >> \o ReplaceBr(Tail(t))

RECURSIVE CollapseSpaces(_)
\* re.sub(r'\s+', ' ', text)
CollapseSpaces(t) ==
  IF Len(t) < 2 THEN t
  ELSE IF Head(t) = "sp" /\ t[2] = "sp"
       THEN CollapseSpaces(Tail(t))
       ELSE <<Head(t)>> \o CollapseSpaces(Tail(t))

\* str.strip() of a text whose whitespace runs are already single blanks
Strip(t) ==
  LET a == IF t # <<>> /\ Head(t) = "sp" THEN Tail(t) ELSE t
  IN  IF a # <<>> /\ a[Len(a)] = "sp" THEN SubSeq(a, 1, Len(a) - 1) ELSE a

clean_text(text) == Strip(CollapseSpaces(ReplaceBr(text)))

\* ------------------------------------------------------------ the selector

BeforeAsMutTimestampAscending(a, b) ==
  \/ a.helpful_vote > b.helpful_vote
  \/ a.helpful_vote = b.helpful_vote /\ a.timestamp < b.timestamp

\* Row a sorts strictly before row b under
\* by=['helpful_vote', 'timestamp'], ascending=[False, False].
Before(a, b) ==
  \/ a.helpful_vote > b.helpful_vote
  \/ a.helpful_vote = b.helpful_vote /\ a.timestamp > b.timestamp

RECURSIVE InsertSorted(_, _)
\* r, which followed the rows of s in the frame, put into the sorted s:
\* behind every row it does not sort strictly before (the sort is stable).
InsertSorted(r, s) ==
  IF s = <<>> THEN <<r>>
  ELSE IF Before(r, Head(s)) THEN <<r>> \o s
       ELSE <<Head(s)>> \o InsertSorted(r, Tail(s))

RECURSIVE sort_values(_)
sort_values(rows) ==
  IF rows = <<>> THEN <<>>
  ELSE InsertSorted(rows[Len(rows)],
                    sort_values(SubSeq(rows, 1, Len(rows) - 1)))

headAsMutOffByOne(rows, n) ==
  SubSeq(rows, 1, IF Len(rows) < n + 1 THEN Len(rows) ELSE n + 1)

\* DataFrame.head(n)
head(rows, n) == SubSeq(rows, 1, IF Len(rows) < n THEN Len(rows) ELSE n)

product_reviews(df, asin) == SelectSeq2(df, asin)

target_reviews(df, asin) ==
  head(sort_values(product_reviews(df, asin)), MAX_REVIEWS_TO_ANALYZE)

\* ------------------------------------------------- insertion-ordered dicts

\* A Python dict is the sequence of its <<key, value>> items in insertion
\* order, which is the order max() and items() iterate in.
DictHas(d, k) == \E i \in 1..Len(d) : d[i][1] = k

DictGet(d, k, default) ==
  IF DictHas(d, k) THEN d[CHOOSE i \in 1..Len(d) : d[i][1] = k][2] ELSE default

\* d[k] = v: an existing key keeps its position, a new key goes last.
DictSet(d, k, v) ==
  IF DictHas(d, k)
  THEN [i \in 1..Len(d) |-> IF d[i][1] = k THEN <<k, v>> ELSE d[i]]
  ELSE Append(d, <<k, v>>)

\* max(iterable, key=...): the first item whose key is the largest.
FirstMax(keys) ==
  CHOOSE i \in 1..Len(keys) :
    /\ \A j \in 1..Len(keys) : keys[j] <= keys[i]
    /\ \A j \in 1..(i - 1) : keys[j] < keys[i]

\* max(d, key=d.get)
MaxKey(d) == d[FirstMax([i \in 1..Len(d) |-> d[i][2]])][1]

\* --------------------------------------------------------- the aggregator

\* max(iterable, key=...) as it would be were the last largest item kept.
LastMax(keys) ==
  CHOOSE i \in 1..Len(keys) :
    /\ \A j \in 1..Len(keys) : keys[j] <= keys[i]
    /\ \A j \in (i + 1)..Len(keys) : keys[j] < keys[i]

bestAsMutLastMax(res) ==
  LET i == LastMax(res.scores)
  IN  [topic |-> res.labels[i], score |-> res.scores[i]]

\* best_topic, best_score = max(zip(res['labels'], res['scores']), key=...)
best(res) ==
  LET i == FirstMax(res.scores)
  IN  [topic |-> res.labels[i], score |-> res.scores[i]]

CountSentimentAsMutIfNotElif(sentiment_counts, rating) ==
  LET a == IF rating >= 4
           THEN DictSet(sentiment_counts, "Positive",
                        DictGet(sentiment_counts, "Positive", 0) + 1)
           ELSE sentiment_counts
  IN  IF rating <= 2
      THEN DictSet(a, "Negative", DictGet(a, "Negative", 0) + 1)
      ELSE DictSet(a, "Neutral", DictGet(a, "Neutral", 0) + 1)

CountSentimentAsMutStrictBounds(sentiment_counts, rating) ==
  IF rating > 4
  THEN DictSet(sentiment_counts, "Positive",
               DictGet(sentiment_counts, "Positive", 0) + 1)
  ELSE IF rating < 2
  THEN DictSet(sentiment_counts, "Negative",
               DictGet(sentiment_counts, "Negative", 0) + 1)
  ELSE DictSet(sentiment_counts, "Neutral",
               DictGet(sentiment_counts, "Neutral", 0) + 1)

\* if row.rating >= 4: ... elif row.rating <= 2: ... else: ...
CountSentiment(sentiment_counts, rating) ==
  IF rating >= 4
  THEN DictSet(sentiment_counts, "Positive",
               DictGet(sentiment_counts, "Positive", 0) + 1)
  ELSE IF rating <= 2
  THEN DictSet(sentiment_counts, "Negative",
               DictGet(sentiment_counts, "Negative", 0) + 1)
  ELSE DictSet(sentiment_counts, "Neutral",
               DictGet(sentiment_counts, "Neutral", 0) + 1)

\* topic_counts[best_topic] = topic_counts.get(best_topic, 0) + 1
CountTopic(topic_counts, topic) ==
  DictSet(topic_counts, topic, DictGet(topic_counts, topic, 0) + 1)

\* One iteration of the loop over target_reviews.itertuples().
LoopBody(acc, row, raw_text, res) ==
  LET b == best(res)
  IN  [processed_reviews |->
         Append(acc.processed_reviews,
                [text |-> raw_text, rating |-> row.rating,
                 topic |-> b.topic, topic_score |-> b.score]),
       topic_counts |-> CountTopic(acc.topic_counts, b.topic),
       sentiment_counts |-> CountSentiment(acc.sentiment_counts, row.rating)]

RECURSIVE Loop(_, _, _, _)
\* The state of the loop after its first i iterations.
Loop(rows, raw_texts, results, i) ==
  IF i = 0
  THEN [processed_reviews |-> <<>>,
        topic_counts |-> <<>>,
        sentiment_counts |->
          << <<"Positive", 0>>, <<"Negative", 0>>, <<"Neutral", 0>> >>]
  ELSE LoopBody(Loop(rows, raw_texts, results, i - 1),
                rows[i], raw_texts[i], results[i])

\* ---------------------------------------------------- the summary generator

\* f"{x:.0f}" of x = (count / total) * 100: to the nearest integer, a tie
\* to the even one.
RoundPct(count, total) ==
  LET q == (100 * count) \div total
      r == (100 * count) % total
  IN  IF 2 * r > total THEN q + 1
      ELSE IF 2 * r < total THEN q
      ELSE IF q % 2 = 0 THEN q ELSE q + 1

Context(top_sentiment) ==
  IF top_sentiment = "Negative"
  THEN "This suggests users are facing critical issues in this specific area."
  ELSE IF top_sentiment = "Positive"
  THEN "This indicates high user satisfaction regarding this feature."
  ELSE "Opinions on this product appear to be mixed."

generate_smart_summaryAsMutLastTopic(topic_counts, sentiment_counts, total_analyzed) ==
  LET top_topic ==
        topic_counts[LastMax([i \in 1..Len(topic_counts) |-> topic_counts[i][2]])][1]
      top_sentiment == MaxKey(sentiment_counts)
  IN  [total_analyzed |-> total_analyzed,
       top_sentiment |-> top_sentiment,
       top_topic |-> top_topic,
       top_topic_pct |->
         RoundPct(DictGet(topic_counts, top_topic, 0), total_analyzed),
       context |-> Context(top_sentiment)]

generate_smart_summaryAsMutLastSentiment(topic_counts, sentiment_counts, total_analyzed) ==
  LET top_topic == MaxKey(topic_counts)
      top_sentiment ==
        sentiment_counts[LastMax([i \in 1..Len(sentiment_counts) |->
                                    sentiment_counts[i][2]])][1]
  IN  [total_analyzed |-> total_analyzed,
       top_sentiment |-> top_sentiment,
       top_topic |-> top_topic,
       top_topic_pct |->
         RoundPct(DictGet(topic_counts, top_topic, 0), total_analyzed),
       context |-> Context(top_sentiment)]

\* The summary is the template's three sentences; the model keeps the values
\* that fill it and the closing sentence chosen.
generate_smart_summary(topic_counts, sentiment_counts, total_analyzed) ==
  LET top_topic == MaxKey(topic_counts)
      top_sentiment == MaxKey(sentiment_counts)
  IN  [total_analyzed |-> total_analyzed,
       top_sentiment |-> top_sentiment,
       top_topic |-> top_topic,
       top_topic_pct |->
         RoundPct(DictGet(topic_counts, top_topic, 0), total_analyzed),
       context |-> Context(top_sentiment)]

\* ------------------------------------------------------------ the pipeline

topic_percentagesAsMutOverAllReviews(topic_counts, total, n_local) ==
  [i \in 1..Len(topic_counts) |->
     [topic |-> topic_counts[i][1], num |-> topic_counts[i][2],
      den |-> n_local]]

\* {k: v / total for k, v in topic_counts.items()}; n_local, the number of
\* the product's reviews, is not used.
topic_percentages(topic_counts, total, n_local) ==
  [i \in 1..Len(topic_counts) |->
     [topic |-> topic_counts[i][1], num |-> topic_counts[i][2],
      den |-> total]]

\* raw_texts = [clean_text(t) for t in target_reviews['text'].tolist()]
raw_texts(rows) == [i \in 1..Len(rows) |-> clean_text(rows[i].text)]

\* The body of cached_inference from the classifier's return on: results is
\* what the classifier returned for raw_texts(target_reviews(df, asin)).
\* The product metadata fields, copied from the product's first row, are
\* left out.
inference(df, asin, results) ==
  LET rows == target_reviews(df, asin)
      acc == Loop(rows, raw_texts(rows), results, Len(rows))
      total == Len(acc.processed_reviews)
  IN  [tag |-> "dict",
       total_reviews_local |-> Len(product_reviews(df, asin)),
       analyzed_count |-> total,
       top_topics |->
         topic_percentages(acc.topic_counts, total,
                           Len(product_reviews(df, asin))),
       sentiment_breakdown |-> acc.sentiment_counts,
       reviews |-> acc.processed_reviews,
       ai_summary |->
         generate_smart_summary(acc.topic_counts, acc.sentiment_counts, total)]

\* if product_reviews.empty: return None
empty(df, asin) == product_reviews(df, asin) = <<>>

classifier_callsAsMutOneByOne(texts, results) ==
  [i \in 1..Len(texts) |->
     [texts |-> <<texts[i]>>, results |-> <<results[i]>>]]

\* The classifier calls cached_inference makes for the texts of one run:
\* results = classifier(raw_texts, candidate_labels=LABELS, multi_label=True),
\* one call with the whole batch.
classifier_calls(texts, results) ==
  << [texts |-> texts, results |-> results] >>

\* ------------------------------------------- the pipeline of streamlit_app.py

\* streamlit_app.py has its own constant, clean_text, generate_smart_summary
\* and pipeline body (analyze_product); they are translated from that file.
st_MAX_REVIEWS_TO_ANALYZE == 2

st_clean_text(text) == Strip(CollapseSpaces(ReplaceBr(text)))

st_generate_smart_summary(topic_counts, sentiment_counts, total_analyzed) ==
  LET top_topic == MaxKey(topic_counts)
      top_topic_pct ==
        RoundPct(DictGet(topic_counts, top_topic, 0), total_analyzed)
      top_sentiment == MaxKey(sentiment_counts)
  IN  [total_analyzed |-> total_analyzed,
       top_sentiment |-> top_sentiment,
       top_topic |-> top_topic,
       top_topic_pct |-> top_topic_pct,
       context |->
         IF top_sentiment = "Negative"
         THEN "This suggests users are facing critical issues in this specific area."
         ELSE IF top_sentiment = "Positive"
         THEN "This indicates high user satisfaction regarding this feature."
         ELSE "Opinions on this product appear to be mixed."]

st_product_reviews(d, asin) == SelectSeq2(d, asin)

st_empty(d, asin) == st_product_reviews(d, asin) = <<>>

st_target_reviewsAsMutUnsorted(d, asin) ==
  head(st_product_reviews(d, asin), st_MAX_REVIEWS_TO_ANALYZE)

st_target_reviews(d, asin) ==
  head(sort_values(st_product_reviews(d, asin)), st_MAX_REVIEWS_TO_ANALYZE)

st_raw_texts(rows) == [i \in 1..Len(rows) |-> st_clean_text(rows[i].text)]

\* One iteration of analyze_product's loop over target_reviews.itertuples().
st_LoopBody(acc, row, raw_text, res) ==
  LET i == FirstMax(res.scores)
      best_topic == res.labels[i]
      best_score == res.scores[i]
      sc == acc.sentiment_counts
  IN  [processed_reviews |->
         Append(acc.processed_reviews,
                [text |-> raw_text, rating |-> row.rating,
                 topic |-> best_topic, topic_score |-> best_score]),
       topic_counts |->
         DictSet(acc.topic_counts, best_topic,
                 DictGet(acc.topic_counts, best_topic, 0) + 1),
       sentiment_counts |->
         IF row.rating >= 4
         THEN DictSet(sc, "Positive", DictGet(sc, "Positive", 0) + 1)
         ELSE IF row.rating <= 2
         THEN DictSet(sc, "Negative", DictGet(sc, "Negative", 0) + 1)
         ELSE DictSet(sc, "Neutral", DictGet(sc, "Neutral", 0) + 1)]

RECURSIVE st_Loop(_, _, _, _)
st_Loop(rows, texts, results, i) ==
  IF i = 0
  THEN [processed_reviews |-> <<>>,
        topic_counts |-> <<>>,
        sentiment_counts |->
          << <<"Positive", 0>>, <<"Negative", 0>>, <<"Neutral", 0>> >>]
  ELSE st_LoopBody(st_Loop(rows, texts, results, i - 1),
                   rows[i], texts[i], results[i])

\* The body of analyze_product from the classifier's return on; the product
\* metadata fields are left out as in inference.
st_analyze_product(d, asin, results) ==
  LET rows == st_target_reviews(d, asin)
      acc == st_Loop(rows, st_raw_texts(rows), results, Len(rows))
      total == Len(acc.processed_reviews)
  IN  [tag |-> "dict",
       total_reviews_local |-> Len(st_product_reviews(d, asin)),
       analyzed_count |-> total,
       top_topics |->
         [i \in 1..Len(acc.topic_counts) |->
            [topic |-> acc.topic_counts[i][1], num |-> acc.topic_counts[i][2],
             den |-> total]],
       sentiment_breakdown |-> acc.sentiment_counts,
       reviews |-> acc.processed_reviews,
       ai_summary |->
         st_generate_smart_summary(acc.topic_counts, acc.sentiment_counts,
                                   total)]

\* results = _classifier(raw_texts, candidate_labels=LABELS, multi_label=True,
\* batch_size=16): one call with the whole list.
st_classifier_calls(texts, results) ==
  << [texts |-> texts, results |-> results] >>

\* --------------------------------------------------------------- the state

VARIABLES
  df,        \* the review store, read-only after load
  cache,     \* lru_cache of cached_inference: [key, result] links, oldest first
  misses,    \* lru_cache's miss counter
  pc,        \* per thread: "idle", or "running" inside cached_inference
  arg,       \* per thread: the asin of the request it is serving
  response,  \* per thread: the last response its client received
  calls,     \* per asin: how often the classifier was invoked for it
  lastuse,   \* history: the asins by their last cache insert or hit, oldest first
  query,     \* the asin of the last direct run of the pipeline
  result,    \* what that run returned
  classifier_log,  \* history: the classifier calls of that run, each with
                   \* the texts passed and the results returned
  st_query,  \* the asin of the last run of streamlit_app.analyze_product
  st_result, \* what that run returned
  st_classifier_log,  \* history: the classifier calls of that run
  product_menu,    \* app.product_menu, built when the module is loaded
  products,        \* the last response of GET /products
  frontend,        \* the dashboard script of the session: "ui" or "streamlit_app"
  selected_asin,   \* st.session_state.selected_asin
  analysis_data,   \* st.session_state.analysis_data
  data_asin,       \* history: the asin analysis_data was fetched for
  ui_pc            \* where the dashboard's script run is

serverVars == <<cache, misses, pc, arg, response, calls, lastuse>>

stVars == <<st_query, st_result, st_classifier_log>>

pipeVars == <<query, result, classifier_log, stVars>>

menuVars == <<product_menu, products>>

uiVars == <<frontend, selected_asin, analysis_data, data_asin, ui_pc>>

vars == <<df, serverVars, pipeVars, menuVars, uiVars>>

Threads == 1..NThreads

NoResponse == [asin |-> "-", status |-> 0, body |-> None]

\* The stores the server is run on: "A" and "B" have reviews.
ServerStores ==
  { s \in Stores :
      /\ ~empty(s, "A")
      /\ Len(s) = 2
      /\ s[2].parent_asin = "B" /\ s[2].helpful_vote = 0
      /\ s[1].helpful_vote = 1 /\ s[1].timestamp = 2 }

\* ------------------------------------------------------------ the lru cache

CacheHas(c, k) == \E i \in 1..Len(c) : c[i].key = k

CacheGet(c, k) == c[CHOOSE i \in 1..Len(c) : c[i].key = k].result

Without(c, k) == SelectSeq(c, LAMBDA l : l.key # k)

lru_hitAsMutNoMove(c, k) == c

\* A hit moves the key's link to the most recently used end.
lru_hit(c, k) == Without(c, k) \o <<[key |-> k, result |-> CacheGet(c, k)]>>

lru_storeAsMutNoStore(c, k, v) == c

\* After the wrapped function returned v for key k: if the key was added
\* meanwhile the cache is left as it is; else the link goes to the most
\* recently used end, in place of the oldest link when the cache is full.
lru_store(c, k, v) ==
  IF CacheHas(c, k) THEN c
  ELSE IF Len(c) < maxsize THEN Append(c, [key |-> k, result |-> v])
  ELSE Append(Tail(c), [key |-> k, result |-> v])

Touch(u, k) == SelectSeq(u, LAMBDA x : x # k) \o <<k>>

\* analyze_product: if not result: raise HTTPException(404); return result
respond(asin, res) ==
  IF res = None
  THEN [asin |-> asin, status |-> 404, body |-> None]
  ELSE [asin |-> asin, status |-> 200, body |-> res]

\* -------------------------------------------------------------- the server

\* No request was served yet.
ServerIdle ==
  /\ cache = <<>>
  /\ misses = 0
  /\ pc = [t \in Threads |-> "idle"]
  /\ arg = [t \in Threads |-> "-"]
  /\ response = [t \in Threads |-> NoResponse]
  /\ calls = [a \in ASINS |-> 0]
  /\ lastuse = <<>>

\* The pipeline was not run directly.
PipeIdle ==
  /\ query = "-"
  /\ result = None
  /\ classifier_log = <<>>
  /\ st_query = "-"
  /\ st_result = None
  /\ st_classifier_log = <<>>

\* No dashboard session is open.
UiIdle ==
  /\ frontend = "-"
  /\ selected_asin = "-"
  /\ analysis_data = None
  /\ data_asin = "-"
  /\ ui_pc = "closed"

\* No product of these stores has the reviews the menu asks for: the menu
\* built at load time is empty.
Init ==
  /\ df \in ServerStores
  /\ ServerIdle
  /\ PipeIdle
  /\ product_menu = <<>>
  /\ products = None
  /\ UiIdle

\* GET /analyze/{asin} finds the key in the cache.
Hit(t, asin) ==
  /\ pc[t] = "idle"
  /\ CacheHas(cache, asin)
  /\ cache' = lru_hit(cache, asin)
  /\ lastuse' = Touch(lastuse, asin)
  /\ response' = [response EXCEPT ![t] = respond(asin, CacheGet(cache, asin))]
  /\ arg' = [arg EXCEPT ![t] = asin]
  /\ UNCHANGED <<df, misses, pc, calls, pipeVars, menuVars, uiVars>>

\* Whether a thread that missed on the cache may enter the wrapped function
\* while others are inside it: lru_cache holds no lock across the call.
MayEnterAsMutGlobalLock(t) == \A u \in Threads : pc[u] = "idle"

MayEnter(t) == TRUE

\* GET /analyze/{asin} misses: the thread enters cached_inference and, when
\* the product has reviews, runs up to the classifier call.
Miss(t, asin) ==
  /\ pc[t] = "idle"
  /\ ~CacheHas(cache, asin)
  /\ MayEnter(t)
  /\ misses < MaxRuns
  /\ misses' = misses + 1
  /\ pc' = [pc EXCEPT ![t] = "running"]
  /\ arg' = [arg EXCEPT ![t] = asin]
  /\ calls' = IF empty(df, asin) THEN calls
              ELSE [calls EXCEPT ![asin] = @ + 1]
  /\ UNCHANGED <<df, cache, response, lastuse, pipeVars, menuVars, uiVars>>

\* What the wrapper does with the function's return value v.
Return(t, v) ==
  /\ cache' = lru_store(cache, arg[t], v)
  /\ lastuse' = IF CacheHas(cache, arg[t]) THEN lastuse
                ELSE Touch(lastuse, arg[t])
  /\ response' = [response EXCEPT ![t] = respond(arg[t], v)]
  /\ pc' = [pc EXCEPT ![t] = "idle"]
  /\ UNCHANGED <<df, misses, arg, calls, pipeVars, menuVars, uiVars>>

\* cached_inference returns None for a product without reviews.
ReturnNone(t) ==
  /\ pc[t] = "running"
  /\ empty(df, arg[t])
  /\ Return(t, None)

\* The classifier returns and cached_inference aggregates and returns.
ClassifierReturn(t, results) ==
  /\ pc[t] = "running"
  /\ ~empty(df, arg[t])
  /\ Return(t, inference(df, arg[t], results))

ClassifierRaiseAsMutCachesNone(t) ==
  /\ pc[t] = "running"
  /\ ~empty(df, arg[t])
  /\ Return(t, None)

\* The classifier raises: the exception leaves the wrapper and the endpoint.
ClassifierRaise(t) ==
  /\ pc[t] = "running"
  /\ ~empty(df, arg[t])
  /\ response' = [response EXCEPT
                    ![t] = [asin |-> arg[t], status |-> 500, body |-> None]]
  /\ pc' = [pc EXCEPT ![t] = "idle"]
  /\ UNCHANGED <<df, cache, misses, arg, calls, lastuse, pipeVars, menuVars, uiVars>>

Next ==
  \E t \in Threads :
    \/ \E asin \in ASINS : Hit(t, asin) \/ Miss(t, asin)
    \/ ReturnNone(t)
    \/ \E results \in ClassifierOutputs(Len(target_reviews(df, arg[t]))) :
         ClassifierReturn(t, results)
    \/ ClassifierRaise(t)

Spec == Init /\ [][Next]_vars

\* ------------------------------------------- the pipeline as a pure function

PipeInit ==
  /\ df \in Stores
  /\ ServerIdle
  /\ PipeIdle
  /\ product_menu = <<>>
  /\ products = None
  /\ UiIdle

\* One run of the pipeline on the store, not through the cache.
PipeNotFound(asin) ==
  /\ query = "-"
  /\ empty(df, asin)
  /\ query' = asin
  /\ result' = None
  /\ classifier_log' = <<>>
  /\ UNCHANGED <<df, serverVars, stVars, menuVars, uiVars>>

PipeAnalyze(asin, results) ==
  /\ query = "-"
  /\ ~empty(df, asin)
  /\ query' = asin
  /\ result' = inference(df, asin, results)
  /\ classifier_log' =
       classifier_calls(raw_texts(target_reviews(df, asin)), results)
  /\ UNCHANGED <<df, serverVars, stVars, menuVars, uiVars>>

\* What the classifier returns to analyze_product: for the texts it was
\* given in the run of cached_inference, what it returned then.
StOutputs(texts) ==
  IF classifier_log # <<>> /\ classifier_log[1].texts = texts
  THEN { classifier_log[1].results }
  ELSE ClassifierOutputs(Len(texts))

\* The same query, run through streamlit_app.analyze_product.
StNotFound ==
  /\ query # "-"
  /\ st_query = "-"
  /\ st_empty(df, query)
  /\ st_query' = query
  /\ st_result' = None
  /\ st_classifier_log' = <<>>
  /\ UNCHANGED <<df, serverVars, query, result, classifier_log, menuVars,
                 uiVars>>

StAnalyze(results) ==
  /\ query # "-"
  /\ st_query = "-"
  /\ ~st_empty(df, query)
  /\ st_query' = query
  /\ st_result' = st_analyze_product(df, query, results)
  /\ st_classifier_log' =
       st_classifier_calls(st_raw_texts(st_target_reviews(df, query)), results)
  /\ UNCHANGED <<df, serverVars, query, result, classifier_log, menuVars,
                 uiVars>>

PipeNext ==
  \/ \E asin \in ASINS :
       \/ PipeNotFound(asin)
       \/ \E results \in ClassifierOutputs(Len(target_reviews(df, asin))) :
            PipeAnalyze(asin, results)
  \/ StNotFound
  \/ \E results \in StOutputs(st_raw_texts(st_target_reviews(df, query))) :
       StAnalyze(results)

PipeSpec == PipeInit /\ [][PipeNext]_vars

\* ------------------------------------------------ properties of the pipeline

Min(a, b) == IF a < b THEN a ELSE b

\* The positions of the store's rows of a product.
RowsOf(asin) == { i \in DOMAIN df : df[i].parent_asin = asin }

Ran == query # "-"

Found == Ran /\ result.tag = "dict"

\* C7: for an ASIN with at least one review the pipeline returns a result
\* whose total_reviews_local is the number of store rows of that ASIN and
\* whose analyzed_count is min(total_reviews_local, MAX_REVIEWS_TO_ANALYZE).
C7_AnalyzedCountIsMin ==
  (Ran /\ RowsOf(query) # {}) =>
    /\ result.tag = "dict"
    /\ result.total_reviews_local = Cardinality(RowsOf(query))
    /\ result.analyzed_count =
         Min(Cardinality(RowsOf(query)), MAX_REVIEWS_TO_ANALYZE)

C7_Witness ==
  /\ Found
  /\ Cardinality(RowsOf(query)) > MAX_REVIEWS_TO_ANALYZE
  /\ result.analyzed_count = MAX_REVIEWS_TO_ANALYZE

\* C8: in every result the Positive, Negative and Neutral counts sum to
\* analyzed_count, which is the length of the reviews list.
C8_SentimentSumsToAnalyzed ==
  Found =>
    /\ DictGet(result.sentiment_breakdown, "Positive", 0)
         + DictGet(result.sentiment_breakdown, "Negative", 0)
         + DictGet(result.sentiment_breakdown, "Neutral", 0)
       = result.analyzed_count
    /\ Len(result.sentiment_breakdown) = 3
    /\ result.analyzed_count = Len(result.reviews)

C8_Witness ==
  /\ Found
  /\ result.analyzed_count >= 2
  /\ DictGet(result.sentiment_breakdown, "Positive", 0) >= 1
  /\ DictGet(result.sentiment_breakdown, "Neutral", 0) >= 1

RECURSIVE SumNum(_)
SumNum(fractions) ==
  IF fractions = <<>> THEN 0
  ELSE Head(fractions).num + SumNum(Tail(fractions))

\* C9: top_topics has one entry for each topic that is some analyzed
\* review's best topic; its value is the number of analyzed reviews with that
\* best topic over analyzed_count, so it lies in [0, 1], and the values sum to
\* 1 (their numerators to analyzed_count).
C9_TopicFractions ==
  Found =>
    LET tt == result.top_topics
        rv == result.reviews
    IN  /\ \A i \in 1..Len(tt) :
             /\ tt[i].den = result.analyzed_count
             /\ tt[i].num =
                  Cardinality({ k \in 1..Len(rv) : rv[k].topic = tt[i].topic })
             /\ 0 <= tt[i].num /\ tt[i].num <= tt[i].den
             /\ \A j \in 1..Len(tt) : tt[j].topic = tt[i].topic => j = i
        /\ \A k \in 1..Len(rv) : \E i \in 1..Len(tt) : tt[i].topic = rv[k].topic
        /\ SumNum(tt) = result.analyzed_count
        /\ result.analyzed_count > 0

C9_Witness ==
  /\ Found
  /\ Cardinality(RowsOf(query)) > MAX_REVIEWS_TO_ANALYZE
  /\ Len(result.top_topics) = 2

\* Row i comes before row j when the product's rows are stably sorted by
\* helpful_vote descending, then timestamp descending.
Precedes(i, j) ==
  \/ df[i].helpful_vote > df[j].helpful_vote
  \/ /\ df[i].helpful_vote = df[j].helpful_vote
     /\ df[i].timestamp > df[j].timestamp
  \/ /\ df[i].helpful_vote = df[j].helpful_vote
     /\ df[i].timestamp = df[j].timestamp
     /\ i < j

\* The first min(n, MAX_REVIEWS_TO_ANALYZE) rows of a product in that order.
Selection(asin) ==
  [k \in 1..Min(Cardinality(RowsOf(asin)), MAX_REVIEWS_TO_ANALYZE) |->
     df[CHOOSE i \in RowsOf(asin) :
          Cardinality({ j \in RowsOf(asin) : Precedes(j, i) }) = k - 1]]

\* C10: the analyzed reviews are the first min(n, MAX_REVIEWS_TO_ANALYZE) of
\* the product's reviews stably sorted by helpful_vote descending, then
\* timestamp descending, and the reviews list of the result is in that order.
C10_SelectionOrder ==
  Found =>
    /\ target_reviews(df, query) = Selection(query)
    /\ Len(result.reviews) = Len(Selection(query))
    /\ \A k \in 1..Len(result.reviews) :
         /\ result.reviews[k].rating = Selection(query)[k].rating
         /\ result.reviews[k].text = clean_text(Selection(query)[k].text)

\* More reviews than the limit, two of the analyzed ones equal on both keys
\* and the later of them in the store left out although it sorts equal.
C10_Witness ==
  /\ Found
  /\ Cardinality(RowsOf(query)) > MAX_REVIEWS_TO_ANALYZE
  /\ \E k \in 1..(Len(result.reviews) - 1) :
       /\ Selection(query)[k].helpful_vote = Selection(query)[k + 1].helpful_vote
       /\ Selection(query)[k].timestamp = Selection(query)[k + 1].timestamp
       /\ result.reviews[k].rating # result.reviews[k + 1].rating

\* -------------------------------------------------- properties of the server

Keys(c) == { c[i].key : i \in 1..Len(c) }

\* Thread t starts serving GET /analyze/{asin}.
Request(t, asin) == Hit(t, asin) \/ Miss(t, asin)

\* C1: concurrent first-time calls for the same uncached ASIN with reviews
\* invoke the classifier once: no two threads are inside cached_inference
\* for the same ASIN at the same time.
C1_SingleFlight ==
  \A t, u \in Threads :
    (t # u /\ pc[t] = "running" /\ pc[u] = "running" /\ ~empty(df, arg[t]))
      => arg[t] # arg[u]

\* C2: the cache holds no entry for an ASIN that has no rows in the store.
C2_NotFoundNotCached ==
  \A a \in ASINS : empty(df, a) => ~CacheHas(cache, a)

\* C3: a call for an ASIN with reviews whose entry is cached returns the
\* stored result without invoking the classifier and leaves the entry as it
\* is; an entry's result never changes while it stays cached; and while no
\* entry was ever evicted, a thread that got a result for an ASIN whose
\* classifier call count is 1 gets the identical result from its next call
\* for it, the count staying at 1.
C3_CacheIdempotence ==
  [][\A a \in ASINS :
       /\ (CacheHas(cache, a) /\ CacheHas(cache', a))
            => CacheGet(cache', a) = CacheGet(cache, a)
       /\ \A t \in Threads :
            /\ (CacheHas(cache, a) /\ ~empty(df, a) /\ Request(t, a)) =>
                 /\ response'[t] = [asin |-> a, status |-> 200,
                                    body |-> CacheGet(cache, a)]
                 /\ calls' = calls
                 /\ pc' = pc
                 /\ CacheHas(cache', a)
            /\ ( /\ response[t].asin = a /\ response[t].status = 200
                 /\ calls[a] = 1
                 /\ Len(lastuse) <= maxsize
                 /\ Request(t, a) ) =>
                 /\ response'[t] = response[t]
                 /\ calls'[a] = 1
                 /\ pc'[t] = "idle"]_vars

\* One classifier call for "A", and both threads were answered for "A".
C3_Witness ==
  /\ calls["A"] = 1
  /\ \A t \in {1, 2} :
       /\ pc[t] = "idle"
       /\ response[t].asin = "A"
       /\ response[t].status = 200

\* C4: when the classifier raises, the caller gets the server error and the
\* cache is left exactly as it was; the caller's next call for that ASIN,
\* nothing being cached for it, enters the pipeline and invokes the
\* classifier again.
C4_FailureLeavesCache ==
  [][\A t \in Threads :
       /\ ( /\ pc[t] = "running" /\ ~empty(df, arg[t])
            /\ pc'[t] = "idle"
            /\ response'[t].status # 200 ) =>
            /\ cache' = cache
            /\ response'[t] = [asin |-> arg[t], status |-> 500, body |-> None]
       /\ \A a \in ASINS :
            ( /\ response[t].asin = a /\ response[t].status = 500
              /\ ~CacheHas(cache, a)
              /\ Request(t, a) ) =>
              /\ pc'[t] = "running"
              /\ calls'[a] = calls[a] + 1]_vars

\* A thread whose call failed is inside the pipeline again for that ASIN.
C4_Witness ==
  \E t \in Threads :
    /\ response[t].status = 500
    /\ pc[t] = "running"
    /\ arg[t] = response[t].asin
    /\ calls[arg[t]] = 2

Pos(u, k) == CHOOSE i \in 1..Len(u) : u[i] = k

\* The cached key whose last insert or hit is the oldest.
LeastRecentlyUsed ==
  CHOOSE k \in Keys(cache) :
    \A e \in Keys(cache) : Pos(lastuse, k) <= Pos(lastuse, e)

\* C5: the cache never holds more than maxsize entries nor two entries for
\* one ASIN; a key inserted into a full cache replaces exactly the least
\* recently used key (least recently inserted or hit), and the other entries
\* keep their results.
C5_BoundedLru ==
  /\ Len(cache) <= maxsize
  /\ [][/\ Len(cache') <= maxsize
        /\ \A i, j \in 1..Len(cache') : cache'[i].key = cache'[j].key => i = j
        /\ \A k \in ASINS :
             (~CacheHas(cache, k) /\ CacheHas(cache', k)) =>
               /\ Keys(cache') =
                    IF Len(cache) = maxsize
                    THEN (Keys(cache) \ {LeastRecentlyUsed}) \cup {k}
                    ELSE Keys(cache) \cup {k}
               /\ \A e \in Keys(cache') \ {k} :
                    CacheGet(cache', e) = CacheGet(cache, e)]_vars

\* An eviction took place: three keys were used, the cache is full, and the
\* key whose last use is the oldest is the one that is gone.
C5_Witness ==
  /\ Len(cache) = maxsize
  /\ Len(lastuse) = maxsize + 1
  /\ ~CacheHas(cache, lastuse[1])
  /\ \A t \in Threads : pc[t] = "idle"

\* C6: while a thread is inside the classifier call for one ASIN, an idle
\* thread can start serving a request for any other ASIN (as long as the
\* run cap MaxRuns of the model is not reached).
C6_NoCrossKeyBlocking ==
  \A t, u \in Threads : \A b \in ASINS :
    ( /\ pc[t] = "running" /\ ~empty(df, arg[t])
      /\ pc[u] = "idle" /\ b # arg[t]
      /\ misses < MaxRuns ) => ENABLED Request(u, b)

\* Two threads are inside the classifier call for different ASINs.
C6_Witness ==
  /\ pc[1] = "running" /\ arg[1] = "A"
  /\ pc[2] = "running" /\ arg[2] = "B"


\* ------------------------------------------------------ the sentiment rule

\* How many of the analyzed reviews of the product have a rating in S.
Rated(S) ==
  Cardinality({ k \in 1..Len(Selection(query)) :
                  Selection(query)[k].rating \in S })

\* C11: sentiment_breakdown counts every analyzed review in the one bucket
\* its rating decides (rating >= 4 Positive, rating <= 2 Negative, else
\* Neutral): the counts are those of the ratings of the selected reviews,
\* whatever the classifier returned.
C11_SentimentByRatingOnly ==
  Found =>
    /\ DictGet(result.sentiment_breakdown, "Positive", 0) = Rated({4, 5})
    /\ DictGet(result.sentiment_breakdown, "Negative", 0) = Rated({1, 2})
    /\ DictGet(result.sentiment_breakdown, "Neutral", 0) = Rated({3})
    /\ \A k \in 1..Len(result.reviews) : result.reviews[k].rating \in 1..5

\* A review rated 4 and a review rated 2 were analyzed, with a classifier
\* output that ties two labels.
C11_Witness ==
  /\ Found
  /\ Rated({4}) = 1 /\ Rated({2}) = 1
  /\ DictGet(result.sentiment_breakdown, "Positive", 0) = 1
  /\ DictGet(result.sentiment_breakdown, "Negative", 0) = 1
  /\ \E k \in 1..Len(classifier_log[1].results) :
       classifier_log[1].results[k].scores[2] = 90


\* ---------------------------------------------------------- the product menu

\* counts[counts >= 5] of app.py:28
MinMenuReviews == 5

\* .head(100) of app.py:30, scaled down so that the cut is reached.
MenuSize == 2

AsinOrder == <<"A", "B", "U", "V">>

RatingNumbers == {1, 2, 3}

MenuCounts == {0, MinMenuReviews - 1, MinMenuReviews}

MenuRow(a, rn) ==
  [parent_asin |-> a, product_title |-> "Title " \o a, rating_number |-> rn,
   helpful_vote |-> 0, timestamp |-> 1, rating |-> 5, text |-> <<"w">>]

RECURSIVE StoreOf(_, _, _)
\* The store with n[a] reviews of each product a among the first k of
\* AsinOrder, the product's rating_number being rn[a].
StoreOf(n, rn, k) ==
  IF k = 0 THEN <<>>
  ELSE StoreOf(n, rn, k - 1)
         \o [i \in 1..n[AsinOrder[k]] |-> MenuRow(AsinOrder[k], rn[AsinOrder[k]])]

MenuStores ==
  { StoreOf(n, rn, Len(AsinOrder)) :
      n \in [ASINS -> MenuCounts], rn \in [ASINS -> RatingNumbers] }

\* df['parent_asin'].value_counts()
value_counts(d) ==
  [a \in { d[i].parent_asin : i \in DOMAIN d } |->
     Cardinality({ i \in DOMAIN d : d[i].parent_asin = a })]

valid_asinsAsMutMoreThan(d) ==
  { a \in DOMAIN value_counts(d) : value_counts(d)[a] > MinMenuReviews }

\* counts[counts >= 5].index
valid_asins(d) ==
  { a \in DOMAIN value_counts(d) : value_counts(d)[a] >= MinMenuReviews }

\* df_valid.groupby('parent_asin').first(): per product the columns of its
\* first row.
first(d, a) ==
  d[CHOOSE i \in DOMAIN d :
      /\ d[i].parent_asin = a
      /\ \A j \in DOMAIN d : d[j].parent_asin = a => i <= j]

grouped(d) == { first(d, a) : a \in valid_asins(d) }

Orderings(S) ==
  { f \in [1..Cardinality(S) -> S] :
      \A i, j \in 1..Cardinality(S) : f[i] = f[j] => i = j }

RECURSIVE MenuInsert(_, _)
\* r put into s, which is sorted by rating_number descending.
MenuInsert(r, s) ==
  IF s = <<>> THEN <<r>>
  ELSE IF r.rating_number > Head(s).rating_number THEN <<r>> \o s
       ELSE <<Head(s)>> \o MenuInsert(r, Tail(s))

RECURSIVE menu_sort(_)
menu_sort(rows) ==
  IF rows = <<>> THEN <<>>
  ELSE MenuInsert(rows[Len(rows)], menu_sort(SubSeq(rows, 1, Len(rows) - 1)))

\* .sort_values('rating_number', ascending=False).head(100): the sort on
\* one column is not stable, so products equal in rating_number may come in
\* any order.
top_products(d) ==
  { head(menu_sort(p), MenuSize) : p \in Orderings(grouped(d)) }

\* top_products[['product_title', 'product_image']].to_dict(orient='index'):
\* the dict's items in order, keyed by asin.
to_dict(rows) ==
  [i \in 1..Len(rows) |->
     [asin |-> rows[i].parent_asin, product_title |-> rows[i].product_title]]

\* [{"asin": k, "title": v['product_title']} for k, v in product_menu.items()]
get_products(menu) ==
  [i \in 1..Len(menu) |->
     [asin |-> menu[i].asin, title |-> menu[i].product_title]]

\* The module was loaded on the store: the menu is built.
MenuInit ==
  /\ df \in MenuStores
  /\ ServerIdle
  /\ PipeIdle
  /\ product_menu \in { to_dict(t) : t \in top_products(df) }
  /\ products = None
  /\ UiIdle

\* GET /products
GetProducts ==
  /\ products' = [tag |-> "list", items |-> get_products(product_menu)]
  /\ UNCHANGED <<df, serverVars, pipeVars, product_menu, uiVars>>

MenuNext == GetProducts

MenuSpec == MenuInit /\ [][MenuNext]_vars

Qualifying == { a \in ASINS : Cardinality(RowsOf(a)) >= 5 }

\* The rating_number of a product: that of its first row in the store.
RatingNumberOf(a) ==
  df[CHOOSE i \in RowsOf(a) : \A j \in RowsOf(a) : i <= j].rating_number

InMenu == { product_menu[i].asin : i \in 1..Len(product_menu) }

\* C12: the menu holds only products with at least 5 reviews, each once, at
\* most MenuSize of them and all of them when fewer qualify; it is ordered by
\* rating_number non-increasing; a qualifying product left out has a
\* rating_number no greater than any entry's; and GET /products returns the
\* entries' asin and title in the menu's order.
C12_Menu ==
  /\ Len(product_menu) = Min(Cardinality(Qualifying), MenuSize)
  /\ InMenu \subseteq Qualifying
  /\ \A i, j \in 1..Len(product_menu) :
       /\ i < j => RatingNumberOf(product_menu[i].asin)
                     >= RatingNumberOf(product_menu[j].asin)
       /\ product_menu[i].asin = product_menu[j].asin => i = j
  /\ \A a \in Qualifying \ InMenu : \A e \in InMenu :
       RatingNumberOf(a) <= RatingNumberOf(e)
  /\ products.tag = "list" =>
       /\ Len(products.items) = Len(product_menu)
       /\ \A i \in 1..Len(product_menu) :
            /\ products.items[i].asin = product_menu[i].asin
            /\ \E r \in RowsOf(product_menu[i].asin) :
                 products.items[i].title = df[r].product_title

\* More products qualify than the menu takes, one has a review too few, and
\* a product left out equals the last entry in rating_number.
C12_Witness ==
  /\ products.tag = "list"
  /\ Cardinality(Qualifying) > MenuSize
  /\ \E a \in ASINS : Cardinality(RowsOf(a)) = 4
  /\ \E a \in Qualifying \ InMenu :
       RatingNumberOf(a) = RatingNumberOf(product_menu[Len(product_menu)].asin)
  /\ RatingNumberOf(product_menu[1].asin)
       > RatingNumberOf(product_menu[Len(product_menu)].asin)


\* ------------------------------------------------------------- best topics

\* What the classifier returned for the k-th analyzed review.
Returned(k) == classifier_log[1].results[k]

MaxScore(res) ==
  CHOOSE m \in { res.scores[i] : i \in 1..Len(res.scores) } :
    \A i \in 1..Len(res.scores) : res.scores[i] <= m

ScoreOf(res, label) ==
  res.scores[CHOOSE i \in 1..Len(res.labels) : res.labels[i] = label]

\* The labels of a result that have its maximum score.
Winners(res) ==
  { res.labels[i] : i \in { j \in 1..Len(res.labels) :
                              res.scores[j] = MaxScore(res) } }

\* The element of the non-empty set S of s's elements that comes first in s.
FirstOf(S, s) ==
  s[CHOOSE i \in 1..Len(s) : s[i] \in S /\ \A j \in 1..(i - 1) : s[j] \notin S]

\* C13 (as claimed): the topic of a review is a label with the maximum
\* score, topic_score is that maximum, and of several labels with the maximum
\* score the first in LABELS is taken, whatever order the classifier
\* returned them in.
C13_BestTopicFirstInLABELS ==
  Found =>
    \A k \in 1..Len(result.reviews) :
      /\ result.reviews[k].topic_score = MaxScore(Returned(k))
      /\ result.reviews[k].topic = FirstOf(Winners(Returned(k)), LABELS)

\* C13 (amended): the topic of a review is a label with the maximum score,
\* topic_score is that maximum, and of several labels with the maximum score
\* the first in the order in which the classifier returned its labels is
\* taken.
C13_BestTopicFirstReturned ==
  Found =>
    \A k \in 1..Len(result.reviews) :
      /\ result.reviews[k].topic_score = MaxScore(Returned(k))
      /\ result.reviews[k].topic \in Winners(Returned(k))
      /\ result.reviews[k].topic
           = FirstOf(Winners(Returned(k)), Returned(k).labels)

\* A review for which two labels have the maximum score and the classifier
\* returned them in another order than LABELS lists them.
C13_Witness ==
  /\ Found
  /\ \E k \in 1..Len(result.reviews) :
       /\ Cardinality(Winners(Returned(k))) = 2
       /\ result.reviews[k].topic # FirstOf(Winners(Returned(k)), LABELS)


\* ----------------------------------------------------------- dominant topic

Range(s) == { s[i] : i \in 1..Len(s) }

\* The number of analyzed reviews whose topic is t.
TopicCount(t) ==
  Cardinality({ k \in 1..Len(result.reviews) : result.reviews[k].topic = t })

\* The topics with the largest number of analyzed reviews.
Dominant ==
  { t \in Range(LABELS) :
      /\ TopicCount(t) > 0
      /\ \A u \in Range(LABELS) : TopicCount(u) <= TopicCount(t) }

\* The topics of the analyzed reviews, in the order of the selection.
TopicsInOrder == [k \in 1..Len(result.reviews) |-> result.reviews[k].topic]

\* C14 (as claimed): the summary names a topic with the largest count, and
\* of several topics with the largest count the first in LABELS.
C14_DominantFirstInLABELS ==
  Found => result.ai_summary.top_topic = FirstOf(Dominant, LABELS)

\* C14 (amended): the summary names a topic with the largest count, and of
\* several topics with the largest count the one whose first analyzed review
\* comes earliest in the selection.
C14_DominantFirstCounted ==
  Found =>
    /\ result.ai_summary.top_topic \in Dominant
    /\ result.ai_summary.top_topic = FirstOf(Dominant, TopicsInOrder)

\* Two topics tie for the largest count and the one counted first is not the
\* one LABELS lists first.
C14_Witness ==
  /\ Found
  /\ Cardinality(Dominant) = 2
  /\ FirstOf(Dominant, TopicsInOrder) # FirstOf(Dominant, LABELS)
  /\ result.ai_summary.top_topic = FirstOf(Dominant, TopicsInOrder)


\* -------------------------------------------------------- sentiment framing

\* The count of a bucket of the sentiment breakdown.
Bucket(s) == DictGet(result.sentiment_breakdown, s, 0)

\* The largest bucket, ties going to Positive, then Negative, then Neutral.
LargestBucket ==
  IF Bucket("Positive") >= Bucket("Negative")
     /\ Bucket("Positive") >= Bucket("Neutral")
  THEN "Positive"
  ELSE IF Bucket("Negative") >= Bucket("Neutral")
  THEN "Negative"
  ELSE "Neutral"

\* C15: the summary's top_sentiment is the bucket with the largest count,
\* ties resolved in the order Positive, Negative, Neutral; the closing
\* sentence is chosen by top_sentiment alone; and the summary is determined
\* by the topic counts, the sentiment counts and the number analyzed.
C15_SentimentFraming ==
  Found =>
    LET s == result.ai_summary
    IN  /\ s.top_sentiment = LargestBucket
        /\ s.top_sentiment = "Negative" =>
             s.context =
               "This suggests users are facing critical issues in this specific area."
        /\ s.top_sentiment = "Positive" =>
             s.context =
               "This indicates high user satisfaction regarding this feature."
        /\ s.top_sentiment = "Neutral" =>
             s.context = "Opinions on this product appear to be mixed."
        /\ s.total_analyzed = result.analyzed_count
        /\ s.top_topic_pct
             = RoundPct(TopicCount(s.top_topic), result.analyzed_count)

\* Two buckets tie for the largest count and the summary reports the one
\* that comes first in the order Positive, Negative, Neutral.
C15_Witness ==
  /\ Found
  /\ Bucket("Positive") = 1
  /\ Bucket("Negative") = 1
  /\ Bucket("Neutral") = 0
  /\ result.ai_summary.top_sentiment = "Positive"


\* ------------------------------------------------------ classifier invocations

\* The cleaned texts of the selected reviews of an asin, in selection order.
SelectedTexts(asin) ==
  [k \in 1..Len(Selection(asin)) |-> clean_text(Selection(asin)[k].text)]

\* C16: a run for an ASIN with at least one review invokes the classifier
\* exactly once, with all selected cleaned texts in selection order, and
\* analyzes at least one review; a run for an ASIN with no review returns
\* not-found without a classifier call. Both copies of the pipeline.
C16_OneClassifierCall ==
  /\ (Ran /\ RowsOf(query) # {}) =>
       /\ Len(classifier_log) = 1
       /\ classifier_log[1].texts = SelectedTexts(query)
       /\ Len(classifier_log[1].texts) >= 1
       /\ result.tag = "dict"
       /\ result.analyzed_count >= 1
  /\ (Ran /\ RowsOf(query) = {}) =>
       /\ result = None
       /\ classifier_log = <<>>
  /\ (st_query # "-" /\ RowsOf(st_query) # {}) =>
       /\ Len(st_classifier_log) = 1
       /\ st_classifier_log[1].texts = SelectedTexts(st_query)
       /\ st_result.tag = "dict"
       /\ st_result.analyzed_count >= 1
  /\ (st_query # "-" /\ RowsOf(st_query) = {}) =>
       /\ st_result = None
       /\ st_classifier_log = <<>>

\* A run that analyzed several reviews with one classifier call.
C16_Witness ==
  /\ Found
  /\ Len(classifier_log) = 1
  /\ Len(classifier_log[1].texts) = MAX_REVIEWS_TO_ANALYZE
  /\ Len(classifier_log[1].texts) > 1

\* ------------------------------------------------------- the two copies agree

\* C17: for the same store, ASIN and classifier output, cached_inference and
\* analyze_product both report not-found or both return a result, and the
\* results have the same analyzed_count, top_topics, sentiment_breakdown,
\* reviews (text, rating, topic, topic_score, in the same order) and summary.
C17_CopiesAgree ==
  st_query # "-" =>
    /\ st_query = query
    /\ st_result.tag = result.tag
    /\ result.tag = "dict" =>
         /\ st_classifier_log[1].texts = classifier_log[1].texts
         /\ st_result.total_reviews_local = result.total_reviews_local
         /\ st_result.analyzed_count = result.analyzed_count
         /\ st_result.top_topics = result.top_topics
         /\ st_result.sentiment_breakdown = result.sentiment_breakdown
         /\ st_result.reviews = result.reviews
         /\ st_result.ai_summary = result.ai_summary

\* Both copies ran on a product with more reviews than are analyzed, whose
\* store order is not the selection order.
C17_Witness ==
  /\ Found
  /\ st_query = query
  /\ st_result.tag = "dict"
  /\ Cardinality(RowsOf(query)) > MAX_REVIEWS_TO_ANALYZE
  /\ Selection(query) # SubSeq(SelectSeq2(df, query), 1, MAX_REVIEWS_TO_ANALYZE)


\* ------------------------------------------------------ the dashboard session

\* A session of one of the two dashboards. Its script runs from top to
\* bottom on every interaction: the sidebar, then the main page. ui_pc is
\* "sidebar" at the start of a run, "rerun" after st.rerun(), "main" at the
\* main page logic and "done" at the end of the run. data_asin keeps the
\* asin of the last analysis stored in the session.
Frontends == {"ui", "streamlit_app"}

UiInit ==
  /\ df \in ServerStores
  /\ ServerIdle
  /\ PipeIdle
  /\ product_menu = <<>>
  /\ products = None
  /\ frontend \in Frontends
  /\ selected_asin = "-"
  /\ analysis_data = None
  /\ data_asin = "-"
  /\ ui_pc = "sidebar"

UiClickAsMutKeepsData(asin) ==
  /\ frontend = "ui"
  /\ ui_pc = "sidebar"
  /\ selected_asin' = asin
  /\ ui_pc' = "main"
  /\ UNCHANGED <<df, serverVars, pipeVars, menuVars, frontend, analysis_data,
                 data_asin>>

\* ui.py: the Analyze button was clicked with final_asin = asin.
UiClick(asin) ==
  /\ frontend = "ui"
  /\ ui_pc = "sidebar"
  /\ selected_asin' = asin
  /\ analysis_data' = None
  /\ ui_pc' = "main"
  /\ UNCHANGED <<df, serverVars, pipeVars, menuVars, frontend, data_asin>>

\* streamlit_app.py: the same, followed by st.rerun().
StClick(asin) ==
  /\ frontend = "streamlit_app"
  /\ ui_pc = "sidebar"
  /\ selected_asin' = asin
  /\ analysis_data' = None
  /\ ui_pc' = "rerun"
  /\ UNCHANGED <<df, serverVars, pipeVars, menuVars, frontend, data_asin>>

\* The run st.rerun() starts passes the sidebar with the button not clicked.
StRerun ==
  /\ ui_pc = "rerun"
  /\ ui_pc' = "main"
  /\ UNCHANGED <<df, serverVars, pipeVars, menuVars, frontend, selected_asin,
                 analysis_data, data_asin>>

\* The run passes the sidebar without a click on Analyze.
NoClick ==
  /\ ui_pc = "sidebar"
  /\ ui_pc' = "main"
  /\ UNCHANGED <<df, serverVars, pipeVars, menuVars, frontend, selected_asin,
                 analysis_data, data_asin>>

\* ui.py: the sidebar raised (GET /products failed): "Backend Offline".
BackendOffline ==
  /\ frontend = "ui"
  /\ ui_pc = "sidebar"
  /\ ui_pc' = "main"
  /\ UNCHANGED <<df, serverVars, pipeVars, menuVars, frontend, selected_asin,
                 analysis_data, data_asin>>

\* if not st.session_state.selected_asin: the landing page.
Landing ==
  /\ ui_pc = "main"
  /\ selected_asin = "-"
  /\ ui_pc' = "done"
  /\ UNCHANGED <<df, serverVars, pipeVars, menuVars, frontend, selected_asin,
                 analysis_data, data_asin>>

\* The analysis page with data in the session: no fetch, the data is shown.
Render ==
  /\ ui_pc = "main"
  /\ selected_asin # "-"
  /\ analysis_data.tag # "None"
  /\ ui_pc' = "done"
  /\ UNCHANGED <<df, serverVars, pipeVars, menuVars, frontend, selected_asin,
                 analysis_data, data_asin>>

FetchNeeded ==
  /\ ui_pc = "main"
  /\ selected_asin # "-"
  /\ analysis_data.tag = "None"

\* ui.py: GET /analyze/{selected_asin} answered 200 with the analysis.
UiFetchOk(results) ==
  /\ frontend = "ui"
  /\ FetchNeeded
  /\ ~empty(df, selected_asin)
  /\ analysis_data' = inference(df, selected_asin, results)
  /\ data_asin' = selected_asin
  /\ ui_pc' = "done"
  /\ UNCHANGED <<df, serverVars, pipeVars, menuVars, frontend, selected_asin>>

\* ui.py: the backend answered 404, or 500: st.error, nothing stored.
UiFetchNot200 ==
  /\ frontend = "ui"
  /\ FetchNeeded
  /\ ui_pc' = "done"
  /\ UNCHANGED <<df, serverVars, pipeVars, menuVars, frontend, selected_asin,
                 analysis_data, data_asin>>

\* ui.py: the request or resp.json() raised: "Connection Error.".
UiFetchError ==
  /\ frontend = "ui"
  /\ FetchNeeded
  /\ ui_pc' = "done"
  /\ UNCHANGED <<df, serverVars, pipeVars, menuVars, frontend, selected_asin,
                 analysis_data, data_asin>>

\* streamlit_app.py: analyze_product returned the analysis.
StFetchOk(results) ==
  /\ frontend = "streamlit_app"
  /\ FetchNeeded
  /\ ~st_empty(df, selected_asin)
  /\ analysis_data' = st_analyze_product(df, selected_asin, results)
  /\ data_asin' = selected_asin
  /\ ui_pc' = "done"
  /\ UNCHANGED <<df, serverVars, pipeVars, menuVars, frontend, selected_asin>>

\* streamlit_app.py: analyze_product returned None: st.error.
StFetchNotFound ==
  /\ frontend = "streamlit_app"
  /\ FetchNeeded
  /\ st_empty(df, selected_asin)
  /\ ui_pc' = "done"
  /\ UNCHANGED <<df, serverVars, pipeVars, menuVars, frontend, selected_asin,
                 analysis_data, data_asin>>

\* streamlit_app.py: analyze_product raised (the classifier failed); the
\* run ends with the exception.
StFetchRaise ==
  /\ frontend = "streamlit_app"
  /\ FetchNeeded
  /\ ~st_empty(df, selected_asin)
  /\ ui_pc' = "done"
  /\ UNCHANGED <<df, serverVars, pipeVars, menuVars, frontend, selected_asin,
                 analysis_data, data_asin>>

\* An interaction of the user starts the next run of the script.
ScriptRun ==
  /\ ui_pc = "done"
  /\ ui_pc' = "sidebar"
  /\ UNCHANGED <<df, serverVars, pipeVars, menuVars, frontend, selected_asin,
                 analysis_data, data_asin>>

UiNext ==
  \/ \E asin \in ASINS : UiClick(asin)
  \/ \E asin \in ASINS : StClick(asin)
  \/ StRerun
  \/ NoClick
  \/ BackendOffline
  \/ Landing
  \/ Render
  \/ \E results \in ClassifierOutputs(Len(target_reviews(df, selected_asin))) :
       UiFetchOk(results)
  \/ UiFetchNot200
  \/ UiFetchError
  \/ \E results \in ClassifierOutputs(Len(st_target_reviews(df, selected_asin))) :
       StFetchOk(results)
  \/ StFetchNotFound
  \/ StFetchRaise
  \/ ScriptRun

UiSpec == UiInit /\ [][UiNext]_vars

\* The session's analysis_data is an analysis of the product a.
AnalysisOf(data, a) ==
  /\ data.tag = "dict"
  /\ data.total_reviews_local = Cardinality(RowsOf(a))
  /\ Len(data.reviews) = Len(Selection(a))
  /\ \A k \in 1..Len(data.reviews) :
       /\ data.reviews[k].text = SelectedTexts(a)[k]
       /\ data.reviews[k].rating = Selection(a)[k].rating

\* C18: in every step of a dashboard session, analysis_data when not empty
\* is the analysis fetched for the current selected_asin; a step that
\* changes selected_asin leaves analysis_data empty; analysis_data is only
\* ever filled from empty, for the unchanged selected_asin; so after a
\* fetch that failed or found nothing analysis_data is empty, whatever was
\* shown before.
C18_SessionShowsSelected ==
  [][ /\ analysis_data'.tag # "None" =>
           /\ data_asin' = selected_asin'
           /\ AnalysisOf(analysis_data', selected_asin')
      /\ selected_asin' # selected_asin => analysis_data'.tag = "None"
      /\ (analysis_data' # analysis_data /\ analysis_data'.tag # "None") =>
           /\ analysis_data.tag = "None"
           /\ selected_asin' = selected_asin
      /\ (FetchNeeded /\ ui_pc' = "done" /\ data_asin' # selected_asin) =>
           analysis_data'.tag = "None"
    ]_vars

\* The run ended after a fetch that stored nothing for the product now
\* selected, while the session had shown another product's analysis before.
C18_Witness ==
  /\ ui_pc = "done"
  /\ selected_asin \notin {"-", data_asin}
  /\ data_asin # "-"
  /\ analysis_data.tag = "None"

====
